---- MODULE Spec2Model ----
(***************************************************************************)
(* Trace-upload workflow of the course API server                          *)
(* (internal/handler/course.go, CourseHandler.HandleTraceUpload).          *)
(*                                                                         *)
(* Every request is served on its own goroutine; the steps of one request  *)
(* are the handler's blocking calls, and the steps of different requests   *)
(* interleave.  Strings are sequences of one-character strings, so that    *)
(* formatting, sanitising and lower-casing are computed, not assumed.      *)
(***************************************************************************)
EXTENDS Integers, Sequences, FiniteSets, TLC

(***************************************************************************)
(* Bounds of the model.                                                    *)
(***************************************************************************)
NumRequests == 2

\* longest string given to sanitizeFilename on its own
MaxLen == 4

\* longest course name given to the file-name derivation on its own
MaxNameLen == 2

Requests == 1..NumRequests

(***************************************************************************)
(* Characters and strings.                                                 *)
(***************************************************************************)
Upper == <<"A","B","C","D","E","F","G","H","I","J","K","L","M",
           "N","O","P","Q","R","S","T","U","V","W","X","Y","Z">>

Lower == <<"a","b","c","d","e","f","g","h","i","j","k","l","m",
           "n","o","p","q","r","s","t","u","v","w","x","y","z">>

Digits == <<"0","1","2","3","4","5","6","7","8","9">>

Range(s) == {s[i] : i \in DOMAIN s}

\* the character class [a-zA-Z0-9] of sanitizeFilename's regular expression
IsAlnum(c) == c \in Range(Upper) \cup Range(Lower) \cup Range(Digits)

\* strings.ToLower on one ASCII character
ToLowerChar(c) ==
    IF \E i \in DOMAIN Upper : Upper[i] = c
    THEN Lower[CHOOSE i \in DOMAIN Upper : Upper[i] = c]
    ELSE c

\* strings.ToLower
ToLower(s) == [i \in DOMAIN s |-> ToLowerChar(s[i])]

\* fmt's %d verb on a non-negative integer
RECURSIVE FmtNat(_)
FmtNat(n) ==
    IF n < 10 THEN <<Digits[n + 1]>>
    ELSE FmtNat(n \div 10) \o <<Digits[(n % 10) + 1]>>

\* fmt's %d verb
FmtInt(n) == IF n < 0 THEN <<"-">> \o FmtNat(0 - n) ELSE FmtNat(n)

\* mutant: the regular expression without its "+": one underscore per
\* character outside the class
RECURSIVE ReplaceRuns_PerChar(_, _)
ReplaceRuns_PerChar(s, inRun) ==
    IF s = <<>> THEN <<>>
    ELSE IF IsAlnum(Head(s))
    THEN <<Head(s)>> \o ReplaceRuns_PerChar(Tail(s), FALSE)
    ELSE <<"_">> \o ReplaceRuns_PerChar(Tail(s), TRUE)

\* regexp "[^a-zA-Z0-9]+" with ReplaceAllString(input, "_"): every maximal
\* run of characters outside the class becomes one underscore
RECURSIVE ReplaceRuns(_, _)
ReplaceRuns(s, inRun) ==
    IF s = <<>> THEN <<>>
    ELSE IF IsAlnum(Head(s)) THEN <<Head(s)>> \o ReplaceRuns(Tail(s), FALSE)
    ELSE IF inRun THEN ReplaceRuns(Tail(s), TRUE)
    ELSE <<"_">> \o ReplaceRuns(Tail(s), TRUE)

\* strings.TrimLeft(s, "_")
RECURSIVE TrimLeft(_)
TrimLeft(s) ==
    IF s # <<>> /\ Head(s) = "_" THEN TrimLeft(Tail(s)) ELSE s

\* strings.TrimRight(s, "_")
RECURSIVE TrimRight(_)
TrimRight(s) ==
    IF s # <<>> /\ s[Len(s)] = "_" THEN TrimRight(SubSeq(s, 1, Len(s) - 1)) ELSE s

\* strings.Trim(s, "_")
Trim(s) == TrimRight(TrimLeft(s))

sanitizeFilename(input) == Trim(ReplaceRuns(input, FALSE))


(***************************************************************************)
(* Contents of the entity store and the configuration.                     *)
(***************************************************************************)
\* cfg.GCSBucketName
BucketName == <<"b","k","t">>

\* rows of api.users that model.AuthenticateUser can return: user id -> role
UserRole == [alice |-> "admin", bob |-> "user"]

\* what r.BasicAuth() can carry: no header, credentials that do not
\* authenticate, or the credentials of a stored user
Credentials == {"none", "bad"} \cup DOMAIN UserRole

\* values of the {course_id} path segment: two well-formed ids and one that
\* uuid.Parse rejects
PathValues == {"c1", "c2", "not-a-uuid"}

UUIDs == {"c1", "c2"}

\* values of the vector_id form field (empty when absent: a nil vectorID)
VectorIDs == {<<>>, <<"v","7">>}

NoCourse ==
    [ID |-> "", Name |-> <<>>, SubjectCode |-> <<>>, CourseID |-> 0,
     SemesterTerm |-> <<>>, SemesterYear |-> 0, CreditHours |-> 0,
     InstructorID |-> ""]

NoInstructor == [ID |-> "", Name |-> <<>>]

\* rows of api.courses at the start: course c1 exists, c2 does not
CourseRows ==
    {[ID |-> "c1", Name |-> <<"M","L"," ","&"," ","A","I">>,
      SubjectCode |-> <<"C","S">>, CourseID |-> 61,
      SemesterTerm |-> <<"F","a","l","l">>, SemesterYear |-> 2025,
      CreditHours |-> 4, InstructorID |-> "i1"]}

\* rows of api.instructors
InstructorRows == {[ID |-> "i1", Name |-> <<"D","r","."," ","X","u">>]}

\* a trace row written before any of the modelled requests
EarlierTrace ==
    [id |-> 1, user_id |-> "alice", instructor_id |-> "i1", course_id |-> "c1",
     status |-> "processed", vector_id |-> <<"v","1">>,
     file_name |-> <<"o","l","d",".","p","d","f">>,
     bucket_url |-> <<"h","t","t","p","s",":","/","/","o","l","d">>]

(***************************************************************************)
(* State.                                                                  *)
(***************************************************************************)
VARIABLES
    pc,         \* pc[r]: the step request r is about to take
    req,        \* req[r]: the handler's local variables for request r
    resp,       \* resp[r]: the http.ResponseWriter of request r
    calls,      \* calls[r]: the collaborator calls of request r that returned
    traces,     \* the rows of api.traces, in insertion order
    bucket,     \* the objects of the bucket, each with the request that wrote it
    kafka,      \* the messages the producer delivered, in order
    courses,    \* the rows of api.courses
    lastDelete, \* the latest DeleteCourseByID request and its response
    fnArg,      \* the argument of a function studied on its own
    fnRes       \* the result of that function

vars == <<pc, req, resp, calls, traces, bucket, kafka, courses, lastDelete,
          fnArg, fnRes>>

\* the state HandleTraceUpload never writes
elsewhere == <<courses, lastDelete, fnArg, fnRes>>

(***************************************************************************)
(* Collaborators: the model package and the schema of api.traces.          *)
(***************************************************************************)
\* model.AuthenticateUser(h.db, username, password)
AuthenticateUser(cred) ==
    IF cred \in DOMAIN UserRole
    THEN [user |-> [ID |-> cred, Role |-> UserRole[cred]], err |-> ""]
    ELSE [user |-> [ID |-> "", Role |-> ""], err |-> "invalid credentials"]

\* uuid.Parse(courseIDStr)
UuidParse(str) ==
    IF str \in UUIDs THEN [id |-> str, err |-> ""]
    ELSE [id |-> "", err |-> "invalid UUID"]

\* model.GetCourseByID(h.db, courseID); dbOk = the query itself runs
GetCourseByID(courseID, dbOk) ==
    IF ~dbOk THEN [course |-> NoCourse, err |-> "db error"]
    ELSE IF \E c \in courses : c.ID = courseID
    THEN [course |-> CHOOSE c \in courses : c.ID = courseID, err |-> ""]
    ELSE [course |-> NoCourse, err |-> "ErrNoRows"]

\* model.GetInstructorByID(h.db, course.InstructorID)
GetInstructorByID(instructorID, dbOk) ==
    IF ~dbOk THEN [instructor |-> NoInstructor, err |-> "db error"]
    ELSE IF \E i \in InstructorRows : i.ID = instructorID
    THEN [instructor |-> CHOOSE i \in InstructorRows : i.ID = instructorID,
          err |-> ""]
    ELSE [instructor |-> NoInstructor, err |-> "ErrNoRows"]

\* mutant: course_id is a plain column, not a foreign key
TraceConstraints_NoCourseFK(row) ==
    /\ row.status \in {"failed", "processed", "uploaded"}
    /\ row.user_id \in DOMAIN UserRole
    /\ \E i \in InstructorRows : i.ID = row.instructor_id
    /\ Len(row.vector_id) <= 100
    /\ Len(row.file_name) <= 255

\* the constraints of CREATE TABLE api.traces on a new row
TraceConstraints(row) ==
    /\ row.status \in {"failed", "processed", "uploaded"}
    /\ row.user_id \in DOMAIN UserRole
    /\ \E i \in InstructorRows : i.ID = row.instructor_id
    /\ \E c \in courses : c.ID = row.course_id
    /\ Len(row.vector_id) <= 100
    /\ Len(row.file_name) <= 255

\* model.InsertTrace(h.db, userID, instructorID, status, courseID, vectorID,
\* fileName, bucketURL): the rows of api.traces after the call; the id is
\* generated by the table's default
InsertTrace(rows, userID, instructorID, status, courseID, vectorID, fileName, bucketURL, dbOk) ==
    LET row == [id |-> Len(rows) + 1, user_id |-> userID,
                instructor_id |-> instructorID, course_id |-> courseID,
                status |-> status, vector_id |-> vectorID,
                file_name |-> fileName, bucket_url |-> bucketURL]
    IN  IF dbOk /\ TraceConstraints(row) THEN Append(rows, row) ELSE rows

(***************************************************************************)
(* The http.ResponseWriter of one request: the WriteHeader calls in order  *)
(* and the JSON values encoded into the body in order.                     *)
(***************************************************************************)
NewResponse == [headers |-> <<>>, bodies |-> <<>>]

WriteHeader(w, code) == [w EXCEPT !.headers = Append(@, code)]

\* json.NewEncoder(w).Encode(body); a write before any WriteHeader sends 200
Encode(w, body) ==
    [headers |-> IF w.headers = <<>> THEN <<200>> ELSE w.headers,
     bodies |-> Append(w.bodies, body)]

\* the status line the client receives: net/http sends the first WriteHeader
\* and ignores the later ones
StatusOf(w) == IF w.headers = <<>> THEN 0 ELSE Head(w.headers)


(***************************************************************************)
(* The handler's own computations.                                         *)
(***************************************************************************)
\* mutant: authentication without the role check
authenticateRequest_NoRoleCheck(w, cred) ==
    IF cred = "none"
    THEN [user |-> [ID |-> "", Role |-> ""], err |-> "authentication required",
          w |-> w]
    ELSE LET a == AuthenticateUser(cred) IN
         [user |-> a.user, err |-> a.err, w |-> w]

\* h.authenticateRequest(w, r): the user, the error, and the writer after it
authenticateRequest(w, cred) ==
    IF cred = "none"
    THEN [user |-> [ID |-> "", Role |-> ""], err |-> "authentication required",
          w |-> w]
    ELSE LET a == AuthenticateUser(cred) IN
         IF a.err # "" THEN [user |-> a.user, err |-> a.err, w |-> w]
         ELSE IF a.user.Role # "admin"
         THEN [user |-> [ID |-> "", Role |-> ""],
               err |-> "insufficient permissions",
               w |-> Encode(WriteHeader(w, 403),
                            [error |-> "Insufficient permissions"])]
         ELSE [user |-> a.user, err |-> "", w |-> w]

\* h.handleAuthError(w, err)
handleAuthError(w, err) == Encode(WriteHeader(w, 401), [error |-> err])

\* mutant: the instructor's name is inserted without sanitizeFilename
customName_RawInstructor(course, instructor) ==
    sanitizeFilename(course.Name) \o <<"_">> \o
    instructor.Name \o <<"_">> \o
    course.SubjectCode \o <<"_">> \o
    FmtInt(course.CourseID) \o <<"_">> \o
    course.SemesterTerm \o <<"_">> \o
    FmtInt(course.SemesterYear) \o <<".","p","d","f">>

\* the fmt.Sprintf that derives customName
customName(course, instructor) ==
    sanitizeFilename(course.Name) \o <<"_">> \o
    sanitizeFilename(instructor.Name) \o <<"_">> \o
    course.SubjectCode \o <<"_">> \o
    FmtInt(course.CourseID) \o <<"_">> \o
    course.SemesterTerm \o <<"_">> \o
    FmtInt(course.SemesterYear) \o <<".","p","d","f">>

\* the location uploadToGCS returns for the stored object's name
objectURL(name) ==
    <<"h","t","t","p","s",":","/","/","s","t","o","r","a","g","e",".",
      "g","o","o","g","l","e","a","p","i","s",".","c","o","m","/">>
    \o BucketName \o <<"/">> \o name

\* mutant: the status is never set to "uploaded"
traceStatus_NeverUploaded(uploadOk) == "failed"

\* mutant: the failure branch forgets status = "failed"
traceStatus_AlwaysUploaded(uploadOk) == "uploaded"

\* status after uploadToGCS returned
traceStatus(uploadOk) == IF uploadOk THEN "uploaded" ELSE "failed"

\* mutant: the location is dropped on the success branch as well
traceBucketURL_Cleared(uploadOk, url) == <<>>

\* bucketURL after uploadToGCS returned
traceBucketURL(uploadOk, url) == IF uploadOk THEN url ELSE <<>>

\* mutant: a missing row is answered 404, as GetCourseByID's handler does
lookupFailure_NotFound(w, err, what) ==
    IF err = "ErrNoRows"
    THEN Encode(WriteHeader(w, 404), [error |-> "Course not found"])
    ELSE Encode(WriteHeader(w, 500), [error |-> what])

\* the response to a failed course or instructor lookup
lookupFailure(w, err, what) ==
    Encode(WriteHeader(w, 500), [error |-> what])

\* mutant: a recorded storage failure falls through to the success path
afterInsert_RecordedIsSuccess(w, uploadOk, insertOk) ==
    IF ~insertOk
    THEN [w |-> Encode(WriteHeader(w, 500),
                       [error |-> "Failed to insert trace record"]),
          next |-> "done"]
    ELSE [w |-> w, next |-> "publish"]

\* mutant: the failure branch writes its 500 and misses the return
afterInsert_MissingReturn(w, uploadOk, insertOk) ==
    IF ~insertOk
    THEN [w |-> Encode(WriteHeader(w, 500),
                       [error |-> "Failed to insert trace record"]),
          next |-> "done"]
    ELSE IF ~uploadOk
    THEN [w |-> Encode(WriteHeader(w, 500),
                       [error |-> "Failed to upload file to GCS"]),
          next |-> "publish"]
    ELSE [w |-> w, next |-> "publish"]

\* mutant: the error of InsertTrace is not checked on the success branch
afterInsert_InsertErrorIgnored(w, uploadOk, insertOk) ==
    IF ~uploadOk
    THEN IF ~insertOk
         THEN [w |-> Encode(WriteHeader(w, 500),
                            [error |-> "Failed to insert trace record"]),
               next |-> "done"]
         ELSE [w |-> Encode(WriteHeader(w, 500),
                            [error |-> "Failed to upload file to GCS"]),
               next |-> "done"]
    ELSE [w |-> w, next |-> "publish"]

\* mutant: a failed insert returns from the handler without writing
afterInsert_SilentOnInsertError(w, uploadOk, insertOk) ==
    IF ~insertOk THEN [w |-> w, next |-> "done"]
    ELSE IF ~uploadOk
    THEN [w |-> Encode(WriteHeader(w, 500),
                       [error |-> "Failed to upload file to GCS"]),
          next |-> "done"]
    ELSE [w |-> w, next |-> "publish"]

\* what follows model.InsertTrace on either branch: the writer, and whether
\* the handler goes on to the Kafka message
afterInsert(w, uploadOk, insertOk) ==
    IF ~uploadOk
    THEN IF ~insertOk
         THEN [w |-> Encode(WriteHeader(w, 500),
                            [error |-> "Failed to insert trace record"]),
               next |-> "done"]
         ELSE [w |-> Encode(WriteHeader(w, 500),
                            [error |-> "Failed to upload file to GCS"]),
               next |-> "done"]
    ELSE IF ~insertOk
         THEN [w |-> Encode(WriteHeader(w, 500),
                            [error |-> "Failed to insert trace record"]),
               next |-> "done"]
         ELSE [w |-> w, next |-> "publish"]

\* mutant: the course name is sent as stored
traceMessage_RawCourseName(course, instructor, bucketURL) ==
    [instructor_name |-> ToLower(instructor.Name),
     course_code |-> ToLower(course.SubjectCode \o <<" ">> \o FmtInt(course.CourseID)),
     semester_term |-> ToLower(course.SemesterTerm),
     semester_year |-> ToLower(FmtInt(course.SemesterYear)),
     course_name |-> course.Name,
     credit_hours |-> ToLower(FmtInt(course.CreditHours)),
     bucket_path |-> bucketURL]

\* the traceMessage map sent to Kafka
traceMessage(course, instructor, bucketURL) ==
    [instructor_name |-> ToLower(instructor.Name),
     course_code |-> ToLower(course.SubjectCode \o <<" ">> \o FmtInt(course.CourseID)),
     semester_term |-> ToLower(course.SemesterTerm),
     semester_year |-> ToLower(FmtInt(course.SemesterYear)),
     course_name |-> ToLower(course.Name),
     credit_hours |-> ToLower(FmtInt(course.CreditHours)),
     bucket_path |-> bucketURL]

\* the 201 response that ends a successful upload
createdResponse(w, bucketURL) ==
    Encode(WriteHeader(w, 201),
           [message |-> "File uploaded successfully", bucket_url |-> bucketURL])


NewLocals ==
    [cred |-> "", user |-> "", pathValue |-> "", formOk |-> TRUE,
     hasFile |-> TRUE, courseID |-> "", vectorID |-> <<>>, course |-> NoCourse,
     instructor |-> NoInstructor, customName |-> <<>>, uploadOk |-> FALSE,
     bucketURL |-> <<>>]

\* no DeleteCourseByID request has been served
NoDelete ==
    [cred |-> "", courseID |-> "", existed |-> FALSE, referenced |-> FALSE,
     dbOk |-> FALSE, w |-> NewResponse, during |-> {}]

\* no function has been applied
NoResult == [done |-> FALSE, value |-> <<>>]

Call(op, ok, ref) == [op |-> op, ok |-> ok, ref |-> ref]

Init ==
    /\ pc = [r \in Requests |-> "auth"]
    /\ req = [r \in Requests |-> NewLocals]
    /\ resp = [r \in Requests |-> NewResponse]
    /\ calls = [r \in Requests |-> <<>>]
    /\ traces \in {<<>>, <<EarlierTrace>>}
    /\ bucket = <<>>
    /\ kafka = <<>>
    /\ courses = CourseRows
    /\ lastDelete = NoDelete
    /\ fnArg = <<>>
    /\ fnRes = NoResult

(***************************************************************************)
(* HandleTraceUpload, one action per blocking step.                        *)
(***************************************************************************)
\* authenticateRequest and, on its error, handleAuthError
Authenticate(r) ==
    /\ pc[r] = "auth"
    /\ \E cred \in Credentials :
         LET a == authenticateRequest(resp[r], cred) IN
         IF a.err # ""
         THEN /\ resp' = [resp EXCEPT ![r] = handleAuthError(a.w, a.err)]
              /\ pc' = [pc EXCEPT ![r] = "done"]
              /\ req' = [req EXCEPT ![r].cred = cred]
         ELSE /\ resp' = [resp EXCEPT ![r] = a.w]
              /\ pc' = [pc EXCEPT ![r] = "parse"]
              /\ req' = [req EXCEPT ![r].cred = cred, ![r].user = a.user.ID]
    /\ UNCHANGED <<calls, traces, bucket, kafka, elsewhere>>

\* mutant: the missing-file branch writes its 400 and misses the return
ParseRequest_MissingFileGoesOn(r) ==
    /\ pc[r] = "parse"
    /\ \E str \in PathValues, formOk \in BOOLEAN, hasFile \in BOOLEAN,
          vid \in VectorIDs :
         LET id == UuidParse(str) IN
         IF id.err # ""
         THEN /\ resp' = [resp EXCEPT ![r] =
                    Encode(WriteHeader(@, 400),
                           [error |-> "Invalid course_id format"])]
              /\ pc' = [pc EXCEPT ![r] = "done"]
              /\ req' = [req EXCEPT ![r].pathValue = str]
         ELSE IF ~formOk
         THEN /\ resp' = [resp EXCEPT ![r] =
                    Encode(WriteHeader(@, 400),
                           [error |-> "Failed to parse multipart form"])]
              /\ pc' = [pc EXCEPT ![r] = "done"]
              /\ req' = [req EXCEPT ![r].pathValue = str, ![r].courseID = id.id,
                                    ![r].formOk = FALSE]
         ELSE /\ resp' = [resp EXCEPT ![r] =
                    IF hasFile THEN @
                    ELSE Encode(WriteHeader(@, 400),
                                [error |-> "File is required"])]
              /\ pc' = [pc EXCEPT ![r] = "course"]
              /\ req' = [req EXCEPT ![r].pathValue = str, ![r].courseID = id.id,
                                    ![r].hasFile = hasFile, ![r].vectorID = vid]
    /\ UNCHANGED <<calls, traces, bucket, kafka, elsewhere>>

\* the course id, the multipart form, the file field and vector_id; an
\* input is recorded when the handler reads it
ParseRequest(r) ==
    /\ pc[r] = "parse"
    /\ \E str \in PathValues, formOk \in BOOLEAN, hasFile \in BOOLEAN,
          vid \in VectorIDs :
         LET id == UuidParse(str) IN
         IF id.err # ""
         THEN /\ resp' = [resp EXCEPT ![r] =
                    Encode(WriteHeader(@, 400),
                           [error |-> "Invalid course_id format"])]
              /\ pc' = [pc EXCEPT ![r] = "done"]
              /\ req' = [req EXCEPT ![r].pathValue = str]
         ELSE IF ~formOk
         THEN /\ resp' = [resp EXCEPT ![r] =
                    Encode(WriteHeader(@, 400),
                           [error |-> "Failed to parse multipart form"])]
              /\ pc' = [pc EXCEPT ![r] = "done"]
              /\ req' = [req EXCEPT ![r].pathValue = str, ![r].courseID = id.id,
                                    ![r].formOk = FALSE]
         ELSE IF ~hasFile
         THEN /\ resp' = [resp EXCEPT ![r] =
                    Encode(WriteHeader(@, 400), [error |-> "File is required"])]
              /\ pc' = [pc EXCEPT ![r] = "done"]
              /\ req' = [req EXCEPT ![r].pathValue = str, ![r].courseID = id.id,
                                    ![r].hasFile = FALSE]
         ELSE /\ resp' = resp
              /\ pc' = [pc EXCEPT ![r] = "course"]
              /\ req' = [req EXCEPT ![r].pathValue = str, ![r].courseID = id.id,
                                    ![r].vectorID = vid]
    /\ UNCHANGED <<calls, traces, bucket, kafka, elsewhere>>

\* model.GetCourseByID and its error branch
FetchCourse(r) ==
    /\ pc[r] = "course"
    /\ \E dbOk \in BOOLEAN :
         LET c == GetCourseByID(req[r].courseID, dbOk) IN
         /\ calls' = [calls EXCEPT ![r] =
                Append(@, Call("GetCourseByID", c.err = "", 0))]
         /\ IF c.err # ""
            THEN /\ resp' = [resp EXCEPT ![r] =
                       lookupFailure(@, c.err, "Failed to fetch course details")]
                 /\ pc' = [pc EXCEPT ![r] = "done"]
                 /\ req' = req
            ELSE /\ resp' = resp
                 /\ pc' = [pc EXCEPT ![r] = "instructor"]
                 /\ req' = [req EXCEPT ![r].course = c.course]
    /\ UNCHANGED <<traces, bucket, kafka, elsewhere>>

\* model.GetInstructorByID, its error branch, and the derived file name
FetchInstructor(r) ==
    /\ pc[r] = "instructor"
    /\ \E dbOk \in BOOLEAN :
         LET i == GetInstructorByID(req[r].course.InstructorID, dbOk) IN
         /\ calls' = [calls EXCEPT ![r] =
                Append(@, Call("GetInstructorByID", i.err = "", 0))]
         /\ IF i.err # ""
            THEN /\ resp' = [resp EXCEPT ![r] =
                       lookupFailure(@, i.err, "Failed to fetch instructor details")]
                 /\ pc' = [pc EXCEPT ![r] = "done"]
                 /\ req' = req
            ELSE /\ resp' = resp
                 /\ pc' = [pc EXCEPT ![r] = "gcsCopy"]
                 /\ req' = [req EXCEPT
                       ![r].instructor = i.instructor,
                       ![r].customName = customName(req[r].course, i.instructor)]
    /\ UNCHANGED <<traces, bucket, kafka, elsewhere>>

\* mutant: a failed upload ends the request without recording the attempt
UploadFailed_EndsRequest(r) ==
    /\ calls' = [calls EXCEPT ![r] = Append(@, Call("uploadToGCS", FALSE, 0))]
    /\ req' = [req EXCEPT ![r].uploadOk = FALSE, ![r].bucketURL = <<>>]
    /\ pc' = [pc EXCEPT ![r] = "done"]

\* uploadToGCS returned an error: no location, and the handler goes on to
\* record the attempt
UploadFailed(r) ==
    /\ calls' = [calls EXCEPT ![r] = Append(@, Call("uploadToGCS", FALSE, 0))]
    /\ req' = [req EXCEPT ![r].uploadOk = FALSE, ![r].bucketURL = <<>>]
    /\ pc' = [pc EXCEPT ![r] = "insert"]

\* uploadToGCS: io.Copy into the object's writer
GCSCopy(r) ==
    /\ pc[r] = "gcsCopy"
    /\ \E ok \in BOOLEAN :
         IF ok
         THEN /\ pc' = [pc EXCEPT ![r] = "gcsClose"]
              /\ UNCHANGED <<req, calls>>
         ELSE UploadFailed(r)
    /\ UNCHANGED <<resp, traces, bucket, kafka, elsewhere>>

\* uploadToGCS: w.Close() commits the object under the file name, replacing
\* an object of that name
GCSClose(r) ==
    /\ pc[r] = "gcsClose"
    /\ \E ok \in BOOLEAN :
         IF ok
         THEN /\ pc' = [pc EXCEPT ![r] = "gcsAttrs"]
              /\ bucket' = Append(SelectSeq(bucket,
                                  LAMBDA o : o.name # req[r].customName),
                                  [name |-> req[r].customName, writer |-> r])
              /\ UNCHANGED <<req, calls>>
         ELSE /\ UploadFailed(r)
              /\ bucket' = bucket
    /\ UNCHANGED <<resp, traces, kafka, elsewhere>>

\* uploadToGCS: object.Attrs and the returned location
GCSAttrs(r) ==
    /\ pc[r] = "gcsAttrs"
    /\ \E ok \in BOOLEAN :
         IF ok
         THEN /\ calls' = [calls EXCEPT ![r] =
                     Append(@, Call("uploadToGCS", TRUE, 0))]
              /\ req' = [req EXCEPT ![r].uploadOk = TRUE,
                                    ![r].bucketURL = objectURL(req[r].customName)]
              /\ pc' = [pc EXCEPT ![r] = "insert"]
         ELSE UploadFailed(r)
    /\ UNCHANGED <<resp, traces, bucket, kafka, elsewhere>>

\* mutant: the Kafka message is sent before the trace is inserted
InsertTraceStep_PublishFirst(r) ==
    /\ pc[r] = "insert"
    /\ \E dbOk \in BOOLEAN, sendOk \in BOOLEAN :
         LET status == traceStatus(req[r].uploadOk)
             url == traceBucketURL(req[r].uploadOk, req[r].bucketURL)
             rows == InsertTrace(traces, req[r].user, req[r].course.InstructorID,
                                 status, req[r].courseID, req[r].vectorID,
                                 req[r].customName, url, dbOk)
             insertOk == rows # traces
             out == afterInsert(resp[r], req[r].uploadOk, insertOk)
             sent == IF req[r].uploadOk
                     THEN <<Call("SendMessage", sendOk, 0)>> ELSE <<>>
         IN  /\ traces' = rows
             /\ kafka' = IF req[r].uploadOk /\ sendOk
                         THEN Append(kafka,
                                [topic |-> "pdf-upload",
                                 value |-> traceMessage(req[r].course,
                                              req[r].instructor, url)])
                         ELSE kafka
             /\ calls' = [calls EXCEPT ![r] =
                    (@ \o sent) \o
                    <<Call("InsertTrace", insertOk,
                           IF insertOk THEN Len(rows) ELSE 0)>>]
             /\ req' = [req EXCEPT ![r].bucketURL = url]
             /\ resp' = [resp EXCEPT ![r] =
                    IF out.next = "publish" THEN createdResponse(out.w, url)
                    ELSE out.w]
             /\ pc' = [pc EXCEPT ![r] = "done"]
    /\ UNCHANGED <<bucket, elsewhere>>

\* mutant: a file name that already has a trace row gets no second row
InsertTraceStep_OncePerFile(r) ==
    /\ pc[r] = "insert"
    /\ \E dbOk \in BOOLEAN :
         LET status == traceStatus(req[r].uploadOk)
             url == traceBucketURL(req[r].uploadOk, req[r].bucketURL)
             old == {k \in DOMAIN traces :
                        traces[k].file_name = req[r].customName}
             rows == IF old # {} /\ dbOk THEN traces
                     ELSE InsertTrace(traces, req[r].user,
                                 req[r].course.InstructorID,
                                 status, req[r].courseID, req[r].vectorID,
                                 req[r].customName, url, dbOk)
             insertOk == rows # traces \/ (old # {} /\ dbOk)
             ref == IF rows # traces THEN Len(rows)
                    ELSE IF insertOk THEN traces[CHOOSE k \in old : TRUE].id
                    ELSE 0
             out == afterInsert(resp[r], req[r].uploadOk, insertOk)
         IN  /\ traces' = rows
             /\ calls' = [calls EXCEPT ![r] =
                    Append(@, Call("InsertTrace", insertOk, ref))]
             /\ req' = [req EXCEPT ![r].bucketURL = url]
             /\ resp' = [resp EXCEPT ![r] = out.w]
             /\ pc' = [pc EXCEPT ![r] = out.next]
    /\ UNCHANGED <<bucket, kafka, elsewhere>>

\* mutant: the failure branch does not return, so its request goes on to
\* the insert of the success branch as well
InsertTraceStep_BothBranches(r) ==
    /\ pc[r] = "insert"
    /\ \E dbOk \in BOOLEAN :
         LET status == traceStatus(req[r].uploadOk)
             url == traceBucketURL(req[r].uploadOk, req[r].bucketURL)
             first == InsertTrace(traces, req[r].user, req[r].course.InstructorID,
                                  status, req[r].courseID, req[r].vectorID,
                                  req[r].customName, url, dbOk)
             rows == IF req[r].uploadOk THEN first
                     ELSE InsertTrace(first, req[r].user,
                                      req[r].course.InstructorID, "uploaded",
                                      req[r].courseID, req[r].vectorID,
                                      req[r].customName, url, dbOk)
             insertOk == rows # traces
             out == afterInsert(resp[r], req[r].uploadOk, insertOk)
         IN  /\ traces' = rows
             /\ calls' = [calls EXCEPT ![r] =
                    Append(@, Call("InsertTrace", insertOk,
                                   IF insertOk THEN Len(rows) ELSE 0))]
             /\ req' = [req EXCEPT ![r].bucketURL = url]
             /\ resp' = [resp EXCEPT ![r] = out.w]
             /\ pc' = [pc EXCEPT ![r] = out.next]
    /\ UNCHANGED <<bucket, kafka, elsewhere>>

\* model.InsertTrace on either branch, and the response that follows it
InsertTraceStep(r) ==
    /\ pc[r] = "insert"
    /\ \E dbOk \in BOOLEAN :
         LET status == traceStatus(req[r].uploadOk)
             url == traceBucketURL(req[r].uploadOk, req[r].bucketURL)
             rows == InsertTrace(traces, req[r].user, req[r].course.InstructorID,
                                 status, req[r].courseID, req[r].vectorID,
                                 req[r].customName, url, dbOk)
             insertOk == rows # traces
             out == afterInsert(resp[r], req[r].uploadOk, insertOk)
         IN  /\ traces' = rows
             /\ calls' = [calls EXCEPT ![r] =
                    Append(@, Call("InsertTrace", insertOk,
                                   IF insertOk THEN Len(rows) ELSE 0))]
             /\ req' = [req EXCEPT ![r].bucketURL = url]
             /\ resp' = [resp EXCEPT ![r] = out.w]
             /\ pc' = [pc EXCEPT ![r] = out.next]
    /\ UNCHANGED <<bucket, kafka, elsewhere>>

\* mutant: a failed SendMessage is reported to the caller
PublishStep_ErrorSurfaced(r) ==
    /\ pc[r] = "publish"
    /\ \E sendOk \in BOOLEAN :
         LET msg == traceMessage(req[r].course, req[r].instructor,
                                 req[r].bucketURL)
         IN  /\ kafka' = IF sendOk
                         THEN Append(kafka, [topic |-> "pdf-upload", value |-> msg])
                         ELSE kafka
             /\ calls' = [calls EXCEPT ![r] =
                    Append(@, Call("SendMessage", sendOk, 0))]
             /\ resp' = [resp EXCEPT ![r] =
                    IF sendOk THEN createdResponse(@, req[r].bucketURL)
                    ELSE Encode(WriteHeader(@, 500),
                                [error |-> "Failed to send Kafka message"])]
    /\ pc' = [pc EXCEPT ![r] = "done"]
    /\ UNCHANGED <<req, traces, bucket, elsewhere>>

\* h.producer.SendMessage and the 201 response
PublishStep(r) ==
    /\ pc[r] = "publish"
    /\ \E sendOk \in BOOLEAN :
         LET msg == traceMessage(req[r].course, req[r].instructor,
                                 req[r].bucketURL)
         IN  /\ kafka' = IF sendOk
                         THEN Append(kafka, [topic |-> "pdf-upload", value |-> msg])
                         ELSE kafka
             /\ calls' = [calls EXCEPT ![r] =
                    Append(@, Call("SendMessage", sendOk, 0))]
    /\ resp' = [resp EXCEPT ![r] = createdResponse(@, req[r].bucketURL)]
    /\ pc' = [pc EXCEPT ![r] = "done"]
    /\ UNCHANGED <<req, traces, bucket, elsewhere>>

Next ==
    \E r \in Requests :
        \/ Authenticate(r)
        \/ ParseRequest(r)
        \/ FetchCourse(r)
        \/ FetchInstructor(r)
        \/ GCSCopy(r)
        \/ GCSClose(r)
        \/ GCSAttrs(r)
        \/ InsertTraceStep(r)
        \/ PublishStep(r)

Spec == Init /\ [][Next]_vars


(***************************************************************************)
(* DeleteCourseByID racing with uploads.  The handler issues one statement *)
(* against the entity store, so it is one step.                            *)
(***************************************************************************)
\* how many of the requests are uploads in flight while courses are deleted
RacingUploads == 1

\* mutant: api.traces.course_id carries no foreign key to api.courses
Referenced_NoForeignKey(rows, courseID) == FALSE

\* api.traces.course_id REFERENCES api.courses(id), without an ON DELETE
\* clause: a course some row refers to cannot be deleted
Referenced(rows, courseID) ==
    \E k \in DOMAIN rows : rows[k].course_id = courseID

\* model.DeleteCourseByID(h.db, courseID): the rows of api.courses after
\* the call and the error it returns
ModelDeleteCourseByID(rows, courseID, dbOk) ==
    IF ~dbOk THEN [courses |-> courses, err |-> "db error"]
    ELSE IF ~\E c \in courses : c.ID = courseID
    THEN [courses |-> courses, err |-> "ErrNoRows"]
    ELSE IF Referenced(rows, courseID)
    THEN [courses |-> courses, err |-> "foreign key violation"]
    ELSE [courses |-> {c \in courses : c.ID # courseID}, err |-> ""]

\* the uploads that have looked the course up and not yet inserted their row
BetweenLookupAndInsert(courseID) ==
    {r \in Requests :
        /\ pc[r] \in {"instructor", "gcsCopy", "gcsClose", "gcsAttrs", "insert"}
        /\ req[r].courseID = courseID}

\* the response of CourseHandler.DeleteCourseByID once authenticated
deleteResponse(w, pathValue, err) ==
    IF pathValue = ""
    THEN Encode(WriteHeader(w, 400), [error |-> "Course ID is required"])
    ELSE IF UuidParse(pathValue).err # ""
    THEN Encode(WriteHeader(w, 400), [error |-> "Invalid course ID format"])
    ELSE IF err = "ErrNoRows"
    THEN Encode(WriteHeader(w, 404), [error |-> "Course not found"])
    ELSE IF err # ""
    THEN Encode(WriteHeader(w, 500), [error |-> "Failed to delete course"])
    ELSE Encode(WriteHeader(w, 200),
                [message |-> "Course deleted successfully"])

\* CourseHandler.DeleteCourseByID
DeleteCourseByID ==
    /\ \E cred \in Credentials, pathValue \in PathValues \cup {""},
          dbOk \in BOOLEAN :
         LET a == authenticateRequest(NewResponse, cred)
             id == UuidParse(pathValue)
             reaches == a.err = "" /\ id.err = ""
             d == ModelDeleteCourseByID(traces, id.id, dbOk)
         IN  /\ courses' = IF reaches THEN d.courses ELSE courses
             /\ lastDelete' =
                   [cred |-> cred,
                    courseID |-> IF reaches THEN id.id ELSE "",
                    existed |-> reaches /\ \E c \in courses : c.ID = id.id,
                    referenced |-> reaches /\ Referenced(traces, id.id),
                    dbOk |-> reaches /\ dbOk,
                    w |-> IF a.err # "" THEN handleAuthError(a.w, a.err)
                          ELSE deleteResponse(a.w, pathValue,
                                              IF reaches THEN d.err ELSE ""),
                    during |-> IF reaches /\ d.err = ""
                               THEN BetweenLookupAndInsert(id.id) ELSE {}]
    /\ UNCHANGED <<pc, req, resp, calls, traces, bucket, kafka, fnArg, fnRes>>

\* RacingUploads upload requests arrive; the other requests never do
InitDelete ==
    /\ pc = [r \in Requests |-> IF r <= RacingUploads THEN "auth" ELSE "idle"]
    /\ req = [r \in Requests |-> NewLocals]
    /\ resp = [r \in Requests |-> NewResponse]
    /\ calls = [r \in Requests |-> <<>>]
    /\ traces \in {<<>>, <<EarlierTrace>>}
    /\ bucket = <<>>
    /\ kafka = <<>>
    /\ courses = CourseRows
    /\ lastDelete = NoDelete
    /\ fnArg = <<>>
    /\ fnRes = NoResult

NextDelete == Next \/ DeleteCourseByID

SpecDelete == InitDelete /\ [][NextDelete]_vars

(***************************************************************************)
(* sanitizeFilename, the file-name derivation and the Kafka message on      *)
(* their own: the argument is drawn at the start and one step applies the   *)
(* function.  No request is being served.                                   *)
(***************************************************************************)
\* all strings over chars of length at most n
StringsUpTo(chars, n) == UNION {[1..k -> chars] : k \in 0..n}

\* characters given to sanitizeFilename: of the class, and outside it
SanitizeChars == {"a", "Z", "7", "_", " ", "-", ".", "é"}

\* characters of the course names given to the derivation
NameChars == {"A", "b", "1", " ", "_", "&"}

\* course and instructor metadata given to the derivation
MetaInputs ==
    [course : [ID : {"c1"},
               Name : StringsUpTo(NameChars, MaxNameLen),
               SubjectCode : {<<"C","S">>, <<"c","/","s">>, <<>>},
               CourseID : {-7, 0, 61},
               SemesterTerm : {<<"F","a","l","l">>, <<"S","p"," ","1">>},
               SemesterYear : {2025, -1},
               CreditHours : {4},
               InstructorID : {"i1"}],
     instructor : [ID : {"i1"},
                   Name : {<<"D","r","."," ","X","u">>, <<"-","-">>, <<>>}]]

\* no request has arrived and nothing is stored
Quiet ==
    /\ pc = [r \in Requests |-> "idle"]
    /\ req = [r \in Requests |-> NewLocals]
    /\ resp = [r \in Requests |-> NewResponse]
    /\ calls = [r \in Requests |-> <<>>]
    /\ traces = <<>>
    /\ bucket = <<>>
    /\ kafka = <<>>
    /\ courses = CourseRows
    /\ lastDelete = NoDelete

served == <<pc, req, resp, calls, traces, bucket, kafka, courses, lastDelete>>

InitSanitize ==
    /\ Quiet
    /\ fnArg \in StringsUpTo(SanitizeChars, MaxLen)
    /\ fnRes = NoResult

\* sanitizeFilename(fnArg)
ApplySanitize ==
    /\ ~fnRes.done
    /\ fnRes' = [done |-> TRUE, value |-> sanitizeFilename(fnArg)]
    /\ UNCHANGED <<served, fnArg>>

SpecSanitize == InitSanitize /\ [][ApplySanitize]_vars

InitMeta ==
    /\ Quiet
    /\ fnArg \in MetaInputs
    /\ fnRes = NoResult

\* customName for the course and instructor of fnArg
DeriveName ==
    /\ ~fnRes.done
    /\ fnRes' = [done |-> TRUE,
                 value |-> customName(fnArg.course, fnArg.instructor)]
    /\ UNCHANGED <<served, fnArg>>

\* traceMessage for the course and instructor of fnArg and the location of
\* the object stored under the derived name
BuildMessage ==
    /\ fnRes.done
    /\ "message" \notin DOMAIN fnRes
    /\ fnRes' = [done |-> TRUE, value |-> fnRes.value,
                 message |-> traceMessage(fnArg.course, fnArg.instructor,
                                          objectURL(fnRes.value))]
    /\ UNCHANGED <<served, fnArg>>

NextMeta == DeriveName \/ BuildMessage

SpecMeta == InitMeta /\ [][NextMeta]_vars

(***************************************************************************)
(* Vocabulary of the properties.                                           *)
(***************************************************************************)
Done(r) == pc[r] = "done"

\* the positions of the calls of request r to collaborator op
CallIdx(r, op) == {i \in DOMAIN calls[r] : calls[r][i].op = op}

Succeeded(r, op) == \E i \in CallIdx(r, op) : calls[r][i].ok

Failed(r, op) == \E i \in CallIdx(r, op) : ~calls[r][i].ok

\* the rows of api.traces that the inserts of request r created
RowsOf(r) ==
    {traces[k] : k \in {k \in DOMAIN traces :
        \E i \in CallIdx(r, "InsertTrace") :
            calls[r][i].ok /\ calls[r][i].ref = traces[k].id}}

\* the rows of api.traces written after the initial state
NewRows == {traces[k] : k \in {k \in DOMAIN traces : traces[k] # EarlierTrace}}

IsErrorBody(b) == DOMAIN b = {"error"}

IsSuccessBody(b) == DOMAIN b = {"message", "bucket_url"}

\* storage upload and trace insert of request r both succeeded and r ended
UploadedAndRecorded(r) ==
    Done(r) /\ Succeeded(r, "uploadToGCS") /\ Succeeded(r, "InsertTrace")

\* storage upload of request r failed, its trace insert succeeded, r ended
FailedAndRecorded(r) ==
    Done(r) /\ Failed(r, "uploadToGCS") /\ Succeeded(r, "InsertTrace")


(***************************************************************************)
(* Claims.                                                                 *)
(***************************************************************************)
\* C1: when the storage upload and the trace insert of a request both
\* succeed, the request ends with 201 and a success body whose bucket_url
\* is non-empty, and it has inserted exactly one row, with status
\* "uploaded" and the bucket_url that was returned to the caller.
C1_UploadSuccess ==
    \A r \in Requests :
        UploadedAndRecorded(r) =>
            /\ resp[r].headers = <<201>>
            /\ Len(resp[r].bodies) = 1
            /\ IsSuccessBody(resp[r].bodies[1])
            /\ resp[r].bodies[1].bucket_url # <<>>
            /\ Cardinality(RowsOf(r)) = 1
            /\ \A row \in RowsOf(r) :
                  /\ row.status = "uploaded"
                  /\ row.bucket_url = resp[r].bodies[1].bucket_url

C1_Witness ==
    \E r \in Requests :
        /\ UploadedAndRecorded(r)
        /\ StatusOf(resp[r]) = 201
        /\ RowsOf(r) # {}

\* C2: when the storage upload fails and the trace insert succeeds, the
\* request has inserted exactly one row, with status "failed" and an empty
\* bucket_url, and it ends with 500 and an error body, never the success
\* body.
C2_UploadFailureRecorded ==
    \A r \in Requests :
        FailedAndRecorded(r) =>
            /\ Cardinality(RowsOf(r)) = 1
            /\ \A row \in RowsOf(r) :
                  row.status = "failed" /\ row.bucket_url = <<>>
            /\ StatusOf(resp[r]) = 500
            /\ resp[r].bodies # <<>>
            /\ \A i \in DOMAIN resp[r].bodies : IsErrorBody(resp[r].bodies[i])

C2_Witness ==
    \E r \in Requests :
        /\ FailedAndRecorded(r)
        /\ \E row \in RowsOf(r) : row.status = "failed"

\* C3 as stated: a failed storage upload whose trace row was inserted is
\* answered 201 with a message and an empty bucket_url.
C3_Original ==
    \A r \in Requests :
        FailedAndRecorded(r) =>
            /\ StatusOf(resp[r]) = 201
            /\ \E i \in DOMAIN resp[r].bodies :
                  /\ IsSuccessBody(resp[r].bodies[i])
                  /\ resp[r].bodies[i].bucket_url = <<>>

\* C3 as amended: a failed storage upload is always the request's terminal
\* error.  The response is exactly one 500 with one error body, which names
\* the storage failure when the trace row was inserted and the insert
\* failure when it was not; no 201 and no success body is written.
C3_StorageErrorSurfaced ==
    \A r \in Requests :
        (Done(r) /\ Failed(r, "uploadToGCS")) =>
            /\ resp[r].headers = <<500>>
            /\ resp[r].bodies =
                  <<[error |-> IF Succeeded(r, "InsertTrace")
                               THEN "Failed to upload file to GCS"
                               ELSE "Failed to insert trace record"]>>

C3_Witness ==
    \E r \in Requests :
        /\ FailedAndRecorded(r)
        /\ resp[r].bodies = <<[error |-> "Failed to upload file to GCS"]>>

\* C4: a request whose course lookup or instructor lookup failed has ended
\* with 500, was never answered 404, and made no storage write, no trace
\* insert and no publish.
C4_LookupFailureAborts ==
    \A r \in Requests :
        (Failed(r, "GetCourseByID") \/ Failed(r, "GetInstructorByID")) =>
            /\ Done(r)
            /\ resp[r].headers = <<500>>
            /\ \A i \in DOMAIN resp[r].bodies : IsErrorBody(resp[r].bodies[i])
            /\ CallIdx(r, "uploadToGCS") = {}
            /\ CallIdx(r, "InsertTrace") = {}
            /\ CallIdx(r, "SendMessage") = {}
            /\ \A k \in DOMAIN bucket : bucket[k].writer # r

C4_Witness ==
    \E r1, r2 \in Requests :
        /\ req[r1].courseID = "c2"
        /\ Failed(r1, "GetCourseByID")
        /\ Failed(r2, "GetInstructorByID")
        /\ Done(r1) /\ Done(r2)

\* C5: the response does not depend on the outcome of SendMessage.  Two
\* requests for the same course whose upload and insert succeeded get the
\* same response (201, the same bucket_url), and their rows agree on
\* status, file name and bucket_url, also when one publish succeeded and
\* the other failed.
C5_PublishOutcomeInvisible ==
    \A r1, r2 \in Requests :
        (/\ UploadedAndRecorded(r1)
         /\ UploadedAndRecorded(r2)
         /\ req[r1].courseID = req[r2].courseID) =>
            /\ resp[r1] = resp[r2]
            /\ StatusOf(resp[r1]) = 201
            /\ \A x \in RowsOf(r1), y \in RowsOf(r2) :
                  /\ x.status = y.status
                  /\ x.file_name = y.file_name
                  /\ x.bucket_url = y.bucket_url

C5_Witness ==
    \E r1, r2 \in Requests :
        /\ UploadedAndRecorded(r1)
        /\ UploadedAndRecorded(r2)
        /\ req[r1].courseID = req[r2].courseID
        /\ Succeeded(r1, "SendMessage")
        /\ Failed(r2, "SendMessage")
        /\ resp[r1] = resp[r2]


\* C6: within one request the trace insert comes after the storage attempt
\* has returned and before the publish: every insert has an earlier
\* uploadToGCS call, every publish has an earlier insert, no insert is
\* logged while the upload is still running, and no storage call follows an
\* insert nor an insert a publish.
C6_InsertBetweenUploadAndPublish ==
    \A r \in Requests :
        /\ \A i \in CallIdx(r, "InsertTrace") :
              /\ \E u \in CallIdx(r, "uploadToGCS") : u < i
              /\ \A u \in CallIdx(r, "uploadToGCS") : u < i
        /\ \A p \in CallIdx(r, "SendMessage") :
              /\ \E i \in CallIdx(r, "InsertTrace") : i < p
              /\ \A i \in CallIdx(r, "InsertTrace") : i < p
        /\ pc[r] \in {"gcsCopy", "gcsClose", "gcsAttrs"} =>
              /\ CallIdx(r, "InsertTrace") = {}
              /\ CallIdx(r, "SendMessage") = {}
        /\ pc[r] = "insert" => CallIdx(r, "SendMessage") = {}

C6_Witness ==
    \E r \in Requests :
        \E u \in CallIdx(r, "uploadToGCS"), i \in CallIdx(r, "InsertTrace"),
           p \in CallIdx(r, "SendMessage") : u < i /\ i < p

\* C7: a request whose storage upload failed never attempts a publish, and
\* a finished request whose upload and insert both succeeded attempted it
\* exactly once.
C7_PublishOnlyOnStorageSuccess ==
    \A r \in Requests :
        /\ Failed(r, "uploadToGCS") =>
              CallIdx(r, "SendMessage") = {} /\ pc[r] # "publish"
        /\ UploadedAndRecorded(r) => Cardinality(CallIdx(r, "SendMessage")) = 1

C7_Witness ==
    \E r1, r2 \in Requests :
        /\ FailedAndRecorded(r1)
        /\ CallIdx(r1, "SendMessage") = {}
        /\ UploadedAndRecorded(r2)
        /\ Cardinality(CallIdx(r2, "SendMessage")) = 1

\* C8: a request whose trace insert failed has ended with one 500 and the
\* insert-failure error body, attempted no publish and owns no row, after a
\* successful and after a failed storage upload alike; the table holds one
\* new row per insert that succeeded and none for those that failed.
C8_InsertFailureIsFatal ==
    /\ \A r \in Requests :
          Failed(r, "InsertTrace") =>
              /\ Done(r)
              /\ resp[r].headers = <<500>>
              /\ resp[r].bodies = <<[error |-> "Failed to insert trace record"]>>
              /\ CallIdx(r, "SendMessage") = {}
              /\ RowsOf(r) = {}
    /\ Cardinality(NewRows) =
          Cardinality({q \in Requests : Succeeded(q, "InsertTrace")})

C8_Witness ==
    \E r1, r2 \in Requests :
        /\ Failed(r1, "InsertTrace") /\ Succeeded(r1, "uploadToGCS")
        /\ Failed(r2, "InsertTrace") /\ Failed(r2, "uploadToGCS")
        /\ StatusOf(resp[r1]) = 500 /\ StatusOf(resp[r2]) = 500

\* C9: two requests with the same derived file name whose uploads and
\* inserts all succeeded each own exactly one row, and the two rows are
\* different rows with that same file name.
C9_CollidingUploadsTwoRows ==
    \A r1, r2 \in Requests :
        (/\ r1 # r2
         /\ Succeeded(r1, "uploadToGCS") /\ Succeeded(r1, "InsertTrace")
         /\ Succeeded(r2, "uploadToGCS") /\ Succeeded(r2, "InsertTrace")
         /\ req[r1].customName = req[r2].customName) =>
            /\ Cardinality(RowsOf(r1)) = 1
            /\ Cardinality(RowsOf(r2)) = 1
            /\ Cardinality(RowsOf(r1) \cup RowsOf(r2)) = 2
            /\ \A x \in RowsOf(r1) \cup RowsOf(r2) :
                  x.file_name = req[r1].customName /\ x.status = "uploaded"

C9_Witness ==
    \E r1, r2 \in Requests :
        /\ r1 # r2
        /\ UploadedAndRecorded(r1) /\ UploadedAndRecorded(r2)
        /\ req[r1].customName = req[r2].customName
        /\ Len(bucket) = 1
        /\ Cardinality(RowsOf(r1) \cup RowsOf(r2)) = 2

\* a caller whose credentials authenticate and whose role is not admin
NonAdminCaller(r) ==
    /\ req[r].cred \in DOMAIN UserRole
    /\ UserRole[req[r].cred] # "admin"

\* the upload workflow of request r has begun
ReachedWorkflow(r) == pc[r] \notin {"auth", "done"} \/ calls[r] # <<>>

\* C10 as stated: an authenticated caller whose role is not admin is not
\* answered 401 or 403 and goes on to the upload workflow.
C10_Original ==
    \A r \in Requests :
        NonAdminCaller(r) =>
            /\ \A i \in DOMAIN resp[r].headers : resp[r].headers[i] \notin {401, 403}
            /\ ReachedWorkflow(r)

\* C10 as amended: the endpoint accepts admin callers only.  An
\* authenticated caller whose role is not admin is answered 403 by
\* authenticateRequest with an error body and the request ends without any
\* step of the workflow; every request that reaches the workflow carries
\* the credentials of an admin.
C10_AdminOnly ==
    \A r \in Requests :
        /\ NonAdminCaller(r) =>
              /\ Done(r)
              /\ StatusOf(resp[r]) = 403
              /\ resp[r].bodies[1] = [error |-> "Insufficient permissions"]
              /\ calls[r] = <<>>
              /\ req[r].user = ""
        /\ ReachedWorkflow(r) =>
              /\ req[r].cred \in DOMAIN UserRole
              /\ UserRole[req[r].cred] = "admin"

C10_Witness ==
    \E r \in Requests :
        /\ NonAdminCaller(r)
        /\ Done(r)
        /\ StatusOf(resp[r]) = 403


\* the request carried a course id that uuid.Parse rejects, a form that
\* ParseMultipartForm rejects, or no file field
MalformedInput(r) ==
    \/ (req[r].pathValue # "" /\ req[r].pathValue \notin UUIDs)
    \/ ~req[r].formOk
    \/ ~req[r].hasFile

\* C11: a request with an unparseable course id, an unparseable form or a
\* missing file has ended with one 400 and one error body, made no lookup
\* and no other collaborator call, and wrote no object, row or message.
C11_MalformedInputNoSideEffects ==
    \A r \in Requests :
        MalformedInput(r) =>
            /\ Done(r)
            /\ resp[r].headers = <<400>>
            /\ Len(resp[r].bodies) = 1
            /\ IsErrorBody(resp[r].bodies[1])
            /\ calls[r] = <<>>
            /\ \A k \in DOMAIN bucket : bucket[k].writer # r
            /\ RowsOf(r) = {}
            /\ Cardinality(NewRows) =
                  Cardinality({q \in Requests : Succeeded(q, "InsertTrace")})
            /\ Len(kafka) =
                  Cardinality({q \in Requests : Succeeded(q, "SendMessage")})

C11_Witness ==
    \E r1, r2 \in Requests :
        /\ req[r1].pathValue = "not-a-uuid" /\ StatusOf(resp[r1]) = 400
        /\ ~req[r2].hasFile /\ StatusOf(resp[r2]) = 400
        /\ calls[r1] = <<>> /\ calls[r2] = <<>>


\* the characters [A-Za-z0-9_.] that the specification allows in a file name
AllowedInName(c) == IsAlnum(c) \/ c \in {"_", "."}

\* a sanitised segment: characters of [A-Za-z0-9_] only, no underscore at
\* either end
IsSegment(seg) ==
    /\ \A i \in DOMAIN seg : IsAlnum(seg[i]) \/ seg[i] = "_"
    /\ seg # <<>> => (seg[1] # "_" /\ seg[Len(seg)] # "_")

\* -?[0-9]+
IsDecimal(d) ==
    LET digits == IF d # <<>> /\ d[1] = "-" THEN Tail(d) ELSE d
    IN  digits # <<>> /\ \A i \in DOMAIN digits : digits[i] \in Range(Digits)

\* the characters m..n of s that exist
Part(s, m, n) ==
    LET e == IF n > Len(s) THEN Len(s) ELSE n
    IN  IF m > e THEN <<>> ELSE SubSeq(s, m, e)

\* the position of the last underscore of s, 0 when it has none
LastUnderscore(s) ==
    IF \E i \in DOMAIN s : s[i] = "_"
    THEN CHOOSE i \in DOMAIN s :
            s[i] = "_" /\ \A j \in DOMAIN s : j > i => s[j] # "_"
    ELSE 0

\* s ends with suffix
EndsWith(s, suffix) ==
    /\ Len(s) >= Len(suffix)
    /\ Part(s, Len(s) - Len(suffix) + 1, Len(s)) = suffix

\* s without its last n characters
DropLast(s, n) == Part(s, 1, Len(s) - n)

\* name is <segment>_<segment>_<subject code>_<number>_<term>_<year>.pdf
\* with the subject code and the term of the course as they are stored;
\* read from the right, where the fields that cannot hold an underscore are
MatchesTemplate(name, course) ==
    LET body == DropLast(name, 4)
        uy == LastUnderscore(body)
        y == Part(body, uy + 1, Len(body))
        toTerm == Part(body, 1, uy - 1)
        toSep3 == DropLast(toTerm, Len(course.SemesterTerm))
        toNumber == DropLast(toSep3, 1)
        un == LastUnderscore(toNumber)
        n == Part(toNumber, un + 1, Len(toNumber))
        toCode == Part(toNumber, 1, un - 1)
        toSep2 == DropLast(toCode, Len(course.SubjectCode))
        names == DropLast(toSep2, 1)
    IN  /\ EndsWith(name, <<".", "p", "d", "f">>)
        /\ uy > 0 /\ IsDecimal(y)
        /\ EndsWith(toTerm, course.SemesterTerm)
        /\ EndsWith(toSep3, <<"_">>)
        /\ un > 0 /\ IsDecimal(n)
        /\ EndsWith(toCode, course.SubjectCode)
        /\ EndsWith(toSep2, <<"_">>)
        /\ \E la \in 0..Len(names) :
              /\ IsSegment(Part(names, 1, la))
              /\ Part(names, la + 1, la + 1) = <<"_">>
              /\ IsSegment(Part(names, la + 2, Len(names)))

\* C12 as stated: for all metadata the derived file name contains no
\* character outside [A-Za-z0-9_.].
C12_Original ==
    fnRes.done =>
        \A i \in DOMAIN fnRes.value : AllowedInName(fnRes.value[i])

\* C12 as amended: for all metadata the derived file name matches the
\* template, with two sanitised segments over [A-Za-z0-9_]; the subject
\* code, the term and the signs of the two numbers are inserted as they
\* are, so every character of the name outside [A-Za-z0-9_.] is one of
\* theirs, and the name has none when they have none.
C12_TemplateAndVerbatimFields ==
    fnRes.done =>
        LET name == fnRes.value
            c == fnArg.course
            verbatim == Range(c.SubjectCode) \cup Range(c.SemesterTerm)
                        \cup (IF c.CourseID < 0 \/ c.SemesterYear < 0
                              THEN {"-"} ELSE {})
        IN  /\ MatchesTemplate(name, c)
            /\ \A i \in DOMAIN name :
                  AllowedInName(name[i]) \/ name[i] \in verbatim
            /\ \A ch \in verbatim : \E i \in DOMAIN name : name[i] = ch

C12_Witness ==
    /\ fnRes.done
    /\ fnArg.course.SubjectCode = <<"c", "/", "s">>
    /\ fnArg.course.Name = <<"A", "&">>
    /\ \E i \in DOMAIN fnRes.value : fnRes.value[i] = "/"

\* the characters of s that are in [a-zA-Z0-9], in order
RECURSIVE AlnumOnly(_)
AlnumOnly(s) ==
    IF s = <<>> THEN <<>>
    ELSE IF IsAlnum(Head(s)) THEN <<Head(s)>> \o AlnumOnly(Tail(s))
    ELSE AlnumOnly(Tail(s))

\* the positions of s where a run of characters outside the class starts
\* after a character of the class and is followed by one
InteriorRuns(s) ==
    {i \in DOMAIN s :
        /\ ~IsAlnum(s[i])
        /\ i > 1 /\ IsAlnum(s[i - 1])
        /\ \E j \in DOMAIN s : j > i /\ IsAlnum(s[j])}

\* C13: the output of sanitizeFilename holds only ASCII alphanumerics and
\* underscores, neither starts nor ends with an underscore, has no two
\* adjacent underscores, keeps the alphanumerics of the input in order with
\* one underscore for each run between two of them, and is empty when the
\* input has no alphanumeric character.
C13_SanitizeShape ==
    fnRes.done =>
        LET out == fnRes.value IN
        /\ \A i \in DOMAIN out : IsAlnum(out[i]) \/ out[i] = "_"
        /\ out # <<>> => (out[1] # "_" /\ out[Len(out)] # "_")
        /\ \A i \in DOMAIN out : i > 1 => ~(out[i] = "_" /\ out[i - 1] = "_")
        /\ AlnumOnly(out) = AlnumOnly(fnArg)
        /\ Cardinality({i \in DOMAIN out : out[i] = "_"}) =
              Cardinality(InteriorRuns(fnArg))
        /\ AlnumOnly(fnArg) = <<>> => out = <<>>

C13_Witness ==
    /\ fnRes.done
    /\ fnArg = <<"a", " ", "-", "Z">>
    /\ fnRes.value = <<"a", "_", "Z">>

\* a string without an upper-case letter
IsLower(v) == \A i \in DOMAIN v : v[i] \notin Range(Upper)

\* v is str with every upper-case letter replaced by its lower-case letter
LoweredFrom(v, str) ==
    /\ Len(v) = Len(str)
    /\ IsLower(v)
    /\ \A i \in DOMAIN v :
          \/ v[i] = str[i]
          \/ \E k \in DOMAIN Upper : str[i] = Upper[k] /\ v[i] = Lower[k]

MessageKeys ==
    {"instructor_name", "course_code", "semester_term", "semester_year",
     "course_name", "credit_hours", "bucket_path"}

\* C15 as stated: every one of the seven values of the message is
\* lower-cased.
C15_Original ==
    "message" \in DOMAIN fnRes =>
        \A k \in MessageKeys : IsLower(fnRes.message[k])

\* C15 as amended: the message has the seven keys; the six values taken
\* from the course and the instructor are lower-cased; bucket_path is the
\* location of the stored object as uploadToGCS returned it, with the
\* upper-case letters of the file name kept.
C15_SixValuesLowered ==
    "message" \in DOMAIN fnRes =>
        LET m == fnRes.message
            c == fnArg.course
        IN  /\ DOMAIN m = MessageKeys
            /\ LoweredFrom(m.instructor_name, fnArg.instructor.Name)
            /\ LoweredFrom(m.course_name, c.Name)
            /\ LoweredFrom(m.semester_term, c.SemesterTerm)
            /\ LoweredFrom(m.course_code,
                           c.SubjectCode \o <<" ">> \o FmtInt(c.CourseID))
            /\ LoweredFrom(m.semester_year, FmtInt(c.SemesterYear))
            /\ LoweredFrom(m.credit_hours, FmtInt(c.CreditHours))
            /\ Len(m.bucket_path) > Len(fnRes.value)
            /\ SubSeq(m.bucket_path,
                      Len(m.bucket_path) - Len(fnRes.value) + 1,
                      Len(m.bucket_path)) = fnRes.value

C15_Witness ==
    /\ "message" \in DOMAIN fnRes
    /\ fnArg.course.Name = <<"A", "b">>
    /\ fnRes.message.course_name = <<"a", "b">>
    /\ ~IsLower(fnRes.message.bucket_path)

(***************************************************************************)
(* C14: the status and the bucket_url of the rows of api.traces.            *)
(***************************************************************************)
\* the values the CHECK constraint on api.traces.status admits
TraceStatuses == {"failed", "processed", "uploaded"}

\* a Go string: never NULL, possibly empty
IsString(v) == DOMAIN v = 1 .. Len(v)

\* C14: every row of api.traces has a status among uploaded, failed and
\* processed and a bucket_url that is a (possibly empty) string; a row the
\* upload workflow wrote has status uploaded or failed, and its bucket_url
\* is the empty string exactly when its status is failed.
C14_StatusAndBucketURL ==
    /\ \A k \in DOMAIN traces :
          /\ traces[k].status \in TraceStatuses
          /\ IsString(traces[k].bucket_url)
    /\ \A row \in NewRows :
          /\ row.status \in {"uploaded", "failed"}
          /\ (row.bucket_url = <<>>) <=> (row.status = "failed")

\* an earlier processed row, a row of a failed upload and a row of a
\* successful one side by side
C14_Witness ==
    /\ Len(traces) = 3
    /\ traces[1] = EarlierTrace
    /\ \E r1, r2 \in Requests :
          /\ FailedAndRecorded(r1) /\ UploadedAndRecorded(r2)
          /\ \E a \in RowsOf(r1) : a.status = "failed" /\ a.bucket_url = <<>>
          /\ \E b \in RowsOf(r2) :
                b.status = "uploaded" /\ b.bucket_url = objectURL(b.file_name)

(***************************************************************************)
(* C16: the shape of an error response.                                    *)
(***************************************************************************)
\* request r ended with an error response
EndedInError(r) == Done(r) /\ StatusOf(resp[r]) # 201

\* C16: every error response consists of exactly one JSON object with the
\* single field error, and exactly one status code is written for it,
\* the rejection of an authenticated caller who is not an admin included.
C16_OneErrorObjectOneStatus ==
    \A r \in Requests :
        EndedInError(r) =>
            /\ Len(resp[r].headers) = 1
            /\ Len(resp[r].bodies) = 1
            /\ IsErrorBody(resp[r].bodies[1])

(***************************************************************************)
(* C19: the upload workflow only ever appends to api.traces.                *)
(***************************************************************************)
\* the requests whose trace insert succeeded
Inserted == {r \in Requests : Succeeded(r, "InsertTrace")}

\* the rows that were there before the first request
EarlierRows == {k \in DOMAIN traces : traces[k] = EarlierTrace}

\* one step leaves every existing row as it is and adds at most one row
AppendsAtMostOne ==
    /\ Len(traces') \in {Len(traces), Len(traces) + 1}
    /\ \A k \in DOMAIN traces : traces'[k] = traces[k]

\* C19: an upload request inserts at most one trace row and never modifies
\* or deletes a row that existed before it; the number of rows has grown by
\* the number of requests whose insert succeeded.
C19_InsertOnlyFrame ==
    /\ [](/\ \A r \in Requests : Cardinality(RowsOf(r)) <= 1
          /\ Len(traces) = Cardinality(EarlierRows) + Cardinality(Inserted))
    /\ [][AppendsAtMostOne]_vars

\* both requests inserted a row after the earlier one, which is still first
C19_Witness ==
    /\ Inserted = Requests
    /\ traces[1] = EarlierTrace
    /\ Len(traces) = 1 + NumRequests

(***************************************************************************)
(* C20: no step of the workflow is retried.                                *)
(***************************************************************************)
\* the collaborator calls of the workflow, in the order of the code
WorkflowSteps ==
    <<"GetCourseByID", "GetInstructorByID", "uploadToGCS", "InsertTrace",
      "SendMessage">>

\* the last call of request r was op and it failed
EndedBy(r, op) ==
    /\ calls[r] # <<>>
    /\ calls[r][Len(calls[r])].op = op
    /\ ~calls[r][Len(calls[r])].ok

\* the call of request r right after its call to op is to next
FollowedBy(r, op, next) ==
    \A i \in CallIdx(r, op) :
        i < Len(calls[r]) /\ calls[r][i + 1].op = next

\* C20: within one upload request the course lookup, the instructor
\* lookup, the storage upload, the trace insert and the publish are each
\* attempted at most once; a failed lookup ends the request; a failed
\* storage upload does not end it and is followed by the trace insert.
C20_NoRetry ==
    \A r \in Requests :
        /\ \A k \in DOMAIN WorkflowSteps :
              Cardinality(CallIdx(r, WorkflowSteps[k])) <= 1
        /\ \A op \in {"GetCourseByID", "GetInstructorByID"} :
              Failed(r, op) => Done(r) /\ EndedBy(r, op)
        /\ Failed(r, "uploadToGCS") =>
              \/ pc[r] = "insert" /\ EndedBy(r, "uploadToGCS")
              \/ FollowedBy(r, "uploadToGCS", "InsertTrace")

\* one request stopped at a failed instructor lookup while another went
\* through a failed upload to its insert
C20_Witness ==
    \E r1, r2 \in Requests :
        /\ Done(r1) /\ EndedBy(r1, "GetInstructorByID")
        /\ Done(r2) /\ Failed(r2, "uploadToGCS")
        /\ Succeeded(r2, "InsertTrace")
        /\ Len(calls[r2]) = 4

(***************************************************************************)
(* C17: the foreign keys of a new trace row when the course is deleted     *)
(* while the upload is in flight.                                          *)
(***************************************************************************)
CourseIDs == {c.ID : c \in courses}

InstructorIDs == {i.ID : i \in InstructorRows}

\* this step is the model.InsertTrace call of request r
InsertsNow(r) == pc[r] = "insert" /\ pc'[r] # "insert"

\* C17: a trace row inserted by an upload request references a course and
\* an instructor that exist at the moment of the insert, also when
\* DeleteCourseByID removed the course between the course lookup and the
\* insert: then the insert fails, no row is created and the upload is
\* answered 500.
C17_InsertedRowReferencesExisting ==
    [][\A r \in Requests :
          InsertsNow(r) =>
            /\ traces' # traces =>
                  /\ traces' = Append(traces, traces'[Len(traces')])
                  /\ traces'[Len(traces')].course_id = req[r].courseID
                  /\ traces'[Len(traces')].course_id \in CourseIDs
                  /\ traces'[Len(traces')].instructor_id \in InstructorIDs
            /\ req[r].courseID \notin CourseIDs =>
                  /\ traces' = traces
                  /\ StatusOf(resp'[r]) = 500
                  /\ pc'[r] = "done"]_vars

\* the course was deleted while request r was between its course lookup
\* and its insert; the insert then failed and no row exists
C17_Witness ==
    \E r \in lastDelete.during :
        /\ StatusOf(lastDelete.w) = 200
        /\ lastDelete.courseID = req[r].courseID
        /\ req[r].courseID \notin CourseIDs
        /\ Succeeded(r, "GetCourseByID")
        /\ Failed(r, "InsertTrace")
        /\ StatusOf(resp[r]) = 500
        /\ traces = <<>>

(***************************************************************************)
(* C18: deleting a course that trace rows refer to.                        *)
(***************************************************************************)
\* the rows of api.traces that refer to the course of the latest delete
RowsOfDeleted == {k \in DOMAIN traces : traces[k].course_id = lastDelete.courseID}

\* the latest delete was an admin's, of a stored course with trace rows,
\* and the store was reachable
DeletedReferenced ==
    lastDelete.existed /\ lastDelete.referenced /\ lastDelete.dbOk

\* C18 as stated: DeleteCourseByID on a course that trace rows refer to
\* succeeds, and the rows remain with a dangling course reference.
C18_Original ==
    DeletedReferenced =>
        /\ StatusOf(lastDelete.w) = 200
        /\ lastDelete.courseID \notin CourseIDs
        /\ RowsOfDeleted # {}

\* C18 as amended: DeleteCourseByID on a course that trace rows refer to
\* is rejected by the foreign key and answered 500 "Failed to delete
\* course"; the course and its trace rows remain; a delete that succeeds
\* was of a course without trace rows; no delete changes api.traces and no
\* trace row ever refers to a missing course.
C18_ReferencedCourseNotDeleted ==
    /\ [](/\ DeletedReferenced =>
               /\ lastDelete.w = [headers |-> <<500>>,
                     bodies |-> <<[error |-> "Failed to delete course"]>>]
               /\ lastDelete.courseID \in CourseIDs
               /\ RowsOfDeleted # {}
          /\ StatusOf(lastDelete.w) = 200 =>
               /\ lastDelete.courseID \notin CourseIDs
               /\ RowsOfDeleted = {}
          /\ \A k \in DOMAIN traces : traces[k].course_id \in CourseIDs)
    /\ [][lastDelete' # lastDelete \/ courses' # courses => traces' = traces]_vars

\* an upload recorded its row for the course, and the admin's delete of
\* that course was then refused
C18_Witness ==
    /\ DeletedReferenced
    /\ lastDelete.cred = "alice"
    /\ StatusOf(lastDelete.w) = 500
    /\ \E r \in Requests :
          /\ UploadedAndRecorded(r)
          /\ \E row \in RowsOf(r) : row.course_id = lastDelete.courseID
    /\ EarlierRows = {}

(***************************************************************************)
(* C21: the trace row against the contents of the bucket.                  *)
(***************************************************************************)
\* the objects of the bucket that the upload of request r committed
ObjectsOf(r) == {k \in DOMAIN bucket : bucket[k].writer = r}

\* an object is stored under the file name of the row
StoredUnder(row) == \E k \in DOMAIN bucket : bucket[k].name = row.file_name

\* C21: the trace row of an upload attempt agrees with the object store:
\* an uploaded row has its object in the bucket under the derived file
\* name, and a failed row has an empty bucket_url and no object stored by
\* its attempt, a failure of the attribute read after the close included.
C21_RowMatchesObjectStore ==
    \A r \in Requests :
        \A row \in RowsOf(r) :
            /\ row.status = "uploaded" => StoredUnder(row)
            /\ row.status = "failed" =>
                  /\ row.bucket_url = <<>>
                  /\ ObjectsOf(r) = {}

(***************************************************************************)
(* C22: termination.  Each blocking call of HandleTraceUpload returns, so  *)
(* a request that can take its next step eventually takes it.              *)
(***************************************************************************)
\* the next step of request r, whichever it is
Step(r) ==
    \/ Authenticate(r)
    \/ ParseRequest(r)
    \/ FetchCourse(r)
    \/ FetchInstructor(r)
    \/ GCSCopy(r)
    \/ GCSClose(r)
    \/ GCSAttrs(r)
    \/ InsertTraceStep(r)
    \/ PublishStep(r)

\* every collaborator call of every request returns
CallsReturn == \A r \in Requests : WF_vars(Step(r))

\* RacingUploads requests arrive and are served to the end
SpecLive == InitDelete /\ [][Next]_vars /\ CallsReturn

\* the status codes HandleTraceUpload writes
TerminalStatuses == {400, 401, 403, 500, 201}

\* request r has arrived
Arrived(r) == pc[r] # "idle"

\* in the writer w nothing that reports success comes after an error
NoSuccessAfterError(w) ==
    /\ \A i, j \in DOMAIN w.headers :
          i < j /\ w.headers[i] >= 400 => w.headers[j] >= 400
    /\ \A i, j \in DOMAIN w.bodies :
          i < j /\ IsErrorBody(w.bodies[i]) => IsErrorBody(w.bodies[j])
    /\ (\E i \in DOMAIN w.bodies : IsSuccessBody(w.bodies[i])) =>
          w.headers = <<201>> /\ Len(w.bodies) = 1

====
